---- MODULE Spec2Model ----
(***************************************************************************)
(* The Texas Hold'em table server (server index.ts, the revision whose     *)
(* socket "action" handler calls the consolidated handleAction /           *)
(* updateGameState).  One gameState object, a deck, one turn-timer handle  *)
(* and the callbacks queued with setTimeout / setInterval.  Every socket   *)
(* event handler and every queued callback is one atomic step of the       *)
(* single-threaded event loop.  The hand evaluator (lib/evaluator.ts),      *)
(* which the server does not call, is modelled beside it and run by a      *)
(* specification of its own, EvalSpec.                                     *)
(***************************************************************************)
EXTENDS Integers, Sequences, FiniteSets, Bags, TLC

\* ---------------------------------------------------------------- constants
SMALL_BLIND == 10
BIG_BLIND == 20
MAX_PLAYERS == 6
MIN_BUY_IN == BIG_BLIND
DECK_SIZE == 52

\* ------------------------------------------------------------------- bounds
\* at most MaxConnections sockets send joinGame in a behaviour; their ids are
\* numbered in the order they join, and Stranger is a socket that never joins
MaxConnections == 3
Ids == 1..MaxConnections
Stranger == MaxConnections + 1
\* seats, buy-in amounts, top-up amounts and raise amounts the clients send
\* (0 as a raise amount stands for an action event carrying no amount)
SeatChoices == {0, 1}
BuyInAmounts == {10, 60}
AddChipsAmounts == {10, 20}
RaiseAmounts == {0, 10, 30, 40}
\* action types the clients send; "bet" is a type the server does not know
ActionTypes == {"fold", "check", "call", "raise", "bet"}
\* startNewRound runs at most MaxHands times in a behaviour
MaxHands == 2
\* In a behaviour at most MaxExtras socket events change the state that are
\*   - a sitOut, sitIn, addChips or disconnect, or an action of an unknown type,
\*   - a joinGame or buyIn after the first hand has started,
\*   - any event handled while a callback is queued (the clients are otherwise
\*     slower than the 750 ms to 10 s delays), or
\*   - any event once the last hand the bound MaxHands allows has started,
\* and at most MaxRaises raise events change it.
MaxExtras == 1
MaxRaises == 1

NoId == 0
NoSeat == 0 - 1
\* no call of evaluateHand has returned yet
NoResult == [rank |-> 0, cards |-> << >>]

VARIABLES
    players,          \* gameState.players: sequence of Player records
    communityCards,   \* number of cards in gameState.communityCards
    deck,             \* number of cards left in the module-level deck
    pot,              \* gameState.pot
    currentBet,       \* gameState.currentBet
    phase,            \* gameState.phase
    activePlayerId,   \* gameState.activePlayerId (NoId for null)
    dealerId,         \* gameState.dealerId
    lastBetPlayerId,  \* gameState.lastBetPlayerId
    availableSeats,   \* gameState.availableSeats: sequence of seat numbers
    turnTimer,        \* TRUE while the timeout held in turnTimer is pending
    pending,          \* bag of the other queued callbacks
    status,           \* "running", "crashed" (uncaught TypeError), "hung" (endless loop)
    hands,            \* number of startNewRound calls so far
    budget,           \* the events counted so far against the bounds
    ev,               \* the event or callback handled by the last step
    evalCards,        \* the cards array passed to evaluateHand
    handResult        \* the HandResult evaluateHand returned for it

tableVars == <<players, communityCards, deck, pot, currentBet, phase,
               activePlayerId, dealerId, lastBetPlayerId, availableSeats>>
vars == <<players, communityCards, deck, pot, currentBet, phase,
          activePlayerId, dealerId, lastBetPlayerId, availableSeats,
          turnTimer, pending, status, hands, budget, ev, evalCards, handResult>>

\* ----------------------------------------------------------------- helpers
\* The whole mutable state as one record, threaded through the handlers.
World == [players |-> players, communityCards |-> communityCards, deck |-> deck,
          pot |-> pot, currentBet |-> currentBet, phase |-> phase,
          activePlayerId |-> activePlayerId, dealerId |-> dealerId,
          lastBetPlayerId |-> lastBetPlayerId, availableSeats |-> availableSeats,
          turnTimer |-> turnTimer, pending |-> pending, status |-> status,
          hands |-> hands]

Commit(w) ==
    /\ players' = w.players
    /\ communityCards' = w.communityCards
    /\ deck' = w.deck
    /\ pot' = w.pot
    /\ currentBet' = w.currentBet
    /\ phase' = w.phase
    /\ activePlayerId' = w.activePlayerId
    /\ dealerId' = w.dealerId
    /\ lastBetPlayerId' = w.lastBetPlayerId
    /\ availableSeats' = w.availableSeats
    /\ turnTimer' = w.turnTimer
    /\ pending' = w.pending
    /\ status' = w.status
    /\ hands' = w.hands

Min(a, b) == IF a <= b THEN a ELSE b

\* Array.prototype.findIndex / find over the indices that pass the test: the
\* first of them (1-based), 0 when there is none (JavaScript's -1 / undefined)
FindIndex(hits) == IF hits = {} THEN 0 ELSE CHOOSE i \in hits : \A j \in hits : i <= j

IndexOfId(ps, id) == FindIndex({k \in DOMAIN ps : ps[k].id = id})

\* setTimeout / setInterval: one more queued callback
Schedule(w, cb) == [w EXCEPT !.pending = @ (+) SetToBag({cb})]

Callback(kind, allIn) == [kind |-> kind, allIn |-> allIn]

\* an uncaught TypeError in a handler ends the process; an endless loop blocks
\* the event loop for good.  Neither leaves a state anyone can observe, so the
\* variables other than status keep the values they had before the handler.
Crash(w) == [World EXCEPT !.status = "crashed"]
Hang(w) == [World EXCEPT !.status = "hung"]

\* a state the bounds admit
Within(w) == w.hands <= MaxHands

CanAct(p) == p.isActive /\ ~p.isAllIn

\* The index reached by
\*   next = (cur + 1) % length;
\*   while ((!stop || next !== cur) && (!players[next].isActive || players[next].isAllIn))
\*       next = (next + 1) % length
\* (1-based; cur = 0 is findIndex's -1).  0 when the loop never ends.
NextIndex(ps, cur, stop) ==
    LET n == Len(ps)
        at(k) == ((cur + k - 1) % n) + 1
        hits == {k \in 1..n : CanAct(ps[at(k)]) \/ (stop /\ at(k) = cur)}
    IN IF hits = {} THEN 0
       ELSE at(CHOOSE k \in hits : \A m \in hits : k <= m)

\* dealCards(deck, n) of lib/poker: n cards leave the deck
DealCards(d, n) == IF d >= n THEN d - n ELSE 0

NewPlayer(id) ==
    [id |-> id, chips |-> 0, cards |-> 0, isActive |-> FALSE, currentBet |-> 0,
     isTurn |-> FALSE, isDealer |-> FALSE, hasActed |-> FALSE, isAllIn |-> FALSE,
     isWinner |-> FALSE, isSittingOut |-> TRUE, seatNumber |-> NoSeat,
     isReadyToPlay |-> FALSE]

\* ------------------------------------------------------- engine functions
ResetPlayerActions(w) ==
    [w EXCEPT !.players = [i \in 1..Len(w.players) |->
        [w.players[i] EXCEPT !.hasActed = FALSE, !.currentBet = 0, !.isActive = TRUE]]]

\* clearTimeout of the old handle, then a new pending timeout
StartTurnTimer(w) == [w EXCEPT !.turnTimer = TRUE]

StartNewRound(w) ==
    LET w1 == ResetPlayerActions(w)
        w2 == [w1 EXCEPT !.deck = DECK_SIZE, !.communityCards = 0, !.pot = 0,
                         !.currentBet = 0, !.phase = "pre-flop",
                         !.lastBetPlayerId = NoId, !.hands = @ + 1]
    IN Schedule(w2, Callback("deal", FALSE))

\* the switch of moveToNextPhaseWithDelay; allIn is the closure's allPlayersAllIn
MoveToNextPhaseWithDelay(w, allIn) ==
    CASE w.phase = "pre-flop" -> Schedule([w EXCEPT !.phase = "flop"], Callback("flopDeal", allIn))
      [] w.phase = "flop" -> Schedule([w EXCEPT !.phase = "turn"], Callback("turnDeal", allIn))
      [] w.phase = "turn" -> Schedule([w EXCEPT !.phase = "river"], Callback("riverDeal", allIn))
      [] w.phase = "river" -> Schedule([w EXCEPT !.phase = "showdown"], Callback("showdown", allIn))
      [] OTHER -> w

NextPhase(w) ==
    LET w1 == [w EXCEPT !.turnTimer = FALSE,
                        !.players = [i \in 1..Len(w.players) |-> LET p == w.players[i] IN
                            IF CanAct(p) THEN [p EXCEPT !.currentBet = 0, !.hasActed = FALSE]
                            ELSE p],
                        !.currentBet = 0,
                        !.lastBetPlayerId = NoId]
        nActive == Cardinality({k \in DOMAIN w1.players : w1.players[k].isActive})
        allPlayersAllIn ==
            /\ nActive >= 2
            /\ \A i \in 1..Len(w1.players) :
                   w1.players[i].isActive => (w1.players[i].isAllIn \/ w1.players[i].chips = 0)
    IN MoveToNextPhaseWithDelay(w1, allPlayersAllIn)

\* the turn goes to players[next]
GiveTurn(w, next) ==
    [w EXCEPT !.players = [i \in 1..Len(w.players) |->
                               [w.players[i] EXCEPT !.isTurn = (i = next)]],
              !.activePlayerId = w.players[next].id]

ResetBettingRound(w) ==
    LET w1 == [w EXCEPT !.players = [i \in 1..Len(w.players) |-> LET p == w.players[i] IN
                            IF CanAct(p) THEN [p EXCEPT !.hasActed = FALSE, !.currentBet = 0]
                            ELSE p],
                        !.currentBet = 0,
                        !.lastBetPlayerId = NoId]
        dealerIndex == FindIndex({k \in DOMAIN w1.players : w1.players[k].isDealer})
        next == NextIndex(w1.players, dealerIndex, FALSE)
    IN IF Len(w1.players) = 0 THEN Crash(w1)
       ELSE IF next = 0 THEN Hang(w1)
       ELSE StartTurnTimer(GiveTurn(w1, next))

\* a variant of updateGameState that ends the round on matched bets alone
UpdateGameStateBetsOnly(w) ==
    LET ps == w.players
        act == {i \in 1..Len(ps) : CanAct(ps[i])}
        allBetsMatched == \A i \in act : ps[i].currentBet = w.currentBet
        currentPlayerIndex == FindIndex({k \in DOMAIN ps : ps[k].isTurn})
        next == NextIndex(ps, currentPlayerIndex, TRUE)
    IN IF allBetsMatched THEN NextPhase(w)
       ELSE StartTurnTimer(GiveTurn(w, next))

UpdateGameState(w) ==
    LET ps == w.players
        act == {i \in 1..Len(ps) : CanAct(ps[i])}
        allPlayersActed == \A i \in act : ps[i].hasActed
        allBetsMatched == \A i \in act : ps[i].currentBet = w.currentBet
        currentPlayerIndex == FindIndex({k \in DOMAIN ps : ps[k].isTurn})
        next == NextIndex(ps, currentPlayerIndex, TRUE)
    IN IF allPlayersActed /\ allBetsMatched THEN NextPhase(w)
       ELSE StartTurnTimer(GiveTurn(w, next))

\* handleTimerExpiration, had it handed the timed-out player's wager back
HandleTimerExpirationRefund(w, playerId) ==
    LET i == IndexOfId(w.players, playerId)
    IN IF i = 0 THEN w
       ELSE UpdateGameState([w EXCEPT !.players[i].isSittingOut = TRUE,
                                      !.players[i].isActive = FALSE,
                                      !.players[i].chips = @ + w.players[i].currentBet,
                                      !.pot = @ - w.players[i].currentBet])

HandleTimerExpiration(w, playerId) ==
    LET i == IndexOfId(w.players, playerId)
        w1 == [w EXCEPT !.players[i].isSittingOut = TRUE, !.players[i].isActive = FALSE]
        nActive == Cardinality({k \in DOMAIN w1.players : w1.players[k].isActive})
        win == FindIndex({k \in DOMAIN w1.players : w1.players[k].isActive})
    IN IF i = 0 THEN w
       ELSE IF nActive <= 1 /\ win # 0
       THEN Schedule([w1 EXCEPT !.players[win].chips = @ + w1.pot,
                                !.players[win].isWinner = TRUE],
                     Callback("newRound", FALSE))
       ELSE UpdateGameState(w1)

\* case "fold": the folder leaves the hand; the count of the players left is
\* deferred to a callback
Fold(w, i) ==
    Schedule([w EXCEPT !.players[i].isActive = FALSE, !.players[i].hasActed = TRUE],
             Callback("foldCheck", FALSE))

\* a variant of canCheck that compares with <= instead of ===
CanCheckAtMost(w, i) == w.players[i].currentBet <= w.currentBet

\* case "check"
CanCheck(w, i) == w.players[i].currentBet = w.currentBet

Check(w, i) == [w EXCEPT !.players[i].hasActed = TRUE]

\* a variant of case "call" that forgets gameState.pot += callAmount
CallPotForgotten(w, i) ==
    LET player == w.players[i]
        callAmount == Min(w.currentBet - player.currentBet, player.chips)
    IN [w EXCEPT !.players[i].chips = @ - callAmount,
                 !.players[i].currentBet = @ + callAmount,
                 !.players[i].hasActed = TRUE,
                 !.players[i].isAllIn = (@ \/ player.chips - callAmount = 0)]

\* case "call"
Call(w, i) ==
    LET player == w.players[i]
        callAmount == Min(w.currentBet - player.currentBet, player.chips)
    IN [w EXCEPT !.players[i].chips = @ - callAmount,
                 !.players[i].currentBet = @ + callAmount,
                 !.players[i].hasActed = TRUE,
                 !.players[i].isAllIn = (@ \/ player.chips - callAmount = 0),
                 !.pot = @ + callAmount]

\* case "raise"; amount = 0 is an event without an amount
IsValidRaise(w, i, amount) ==
    LET isAllIn == amount >= w.players[i].chips
    IN isAllIn \/ amount >= w.currentBet * 2

\* a variant of case "raise" that leaves the other players' hasActed as it is
RaiseNoReopen(w, i, amount) ==
    LET player == w.players[i]
        raiseAmount == Min(amount - player.currentBet, player.chips)
    IN [w EXCEPT !.players[i].chips = @ - raiseAmount,
                 !.players[i].currentBet = @ + raiseAmount,
                 !.players[i].hasActed = TRUE,
                 !.players[i].isAllIn = (@ \/ player.chips - raiseAmount = 0),
                 !.currentBet = player.currentBet + raiseAmount,
                 !.pot = @ + raiseAmount,
                 !.lastBetPlayerId = player.id]

Raise(w, i, amount) ==
    LET player == w.players[i]
        raiseAmount == Min(amount - player.currentBet, player.chips)
    IN [w EXCEPT !.players = [j \in 1..Len(w.players) |-> LET p == w.players[j] IN
                     IF j = i
                     THEN [p EXCEPT !.chips = @ - raiseAmount,
                                    !.currentBet = @ + raiseAmount,
                                    !.hasActed = TRUE,
                                    !.isAllIn = (@ \/ p.chips - raiseAmount = 0)]
                     ELSE IF CanAct(p) THEN [p EXCEPT !.hasActed = FALSE]
                     ELSE p],
                 !.currentBet = player.currentBet + raiseAmount,
                 !.pot = @ + raiseAmount,
                 !.lastBetPlayerId = player.id]

HandleAction(w, action, amount, playerId) ==
    LET i == IndexOfId(w.players, playerId)
        w1 == [w EXCEPT !.turnTimer = FALSE]
    IN IF playerId # w.activePlayerId THEN w
       ELSE CASE action = "fold" -> Fold(w1, i)
              [] action = "check" ->
                   IF ~CanCheck(w1, i) THEN w1 ELSE UpdateGameState(Check(w1, i))
              [] action = "call" -> UpdateGameState(Call(w1, i))
              [] action = "raise" ->
                   IF amount = 0 \/ ~IsValidRaise(w1, i, amount) THEN w1
                   ELSE UpdateGameState(Raise(w1, i, amount))
              [] OTHER -> UpdateGameState(w1)

\* k is the index Math.random picks among the active players
DetermineWinner(w, k) ==
    LET act == SelectSeq(w.players, LAMBDA p : p.isActive)
        winnerId == act[k].id
        i == IndexOfId(w.players, winnerId)
        w1 == [w EXCEPT !.players[i].isWinner = TRUE, !.players[i].chips = @ + w.pot]
        w2 == [w1 EXCEPT !.players = [j \in 1..Len(w1.players) |-> LET p == w1.players[j] IN
                            IF p.chips = 0 /\ ~p.isSittingOut
                            THEN [p EXCEPT !.isSittingOut = TRUE, !.isReadyToPlay = FALSE]
                            ELSE p]]
    IN IF Len(act) = 0 THEN w
       ELSE Schedule(w2, Callback("newRound", FALSE))

\* ------------------------------------------------------- queued callbacks
RECURSIVE DealEach(_, _)
\* one dealCards(deck, 2) per rostered player
DealEach(d, n) == IF n = 0 THEN d ELSE DealEach(DealCards(d, 2), n - 1)

\* the callback startNewRound queues: hole cards, dealer button, blinds, first turn
OnDeal(w) ==
    LET ps == w.players
        n == Len(ps)
        dealerIndex == FindIndex({k \in DOMAIN ps : ps[k].isDealer})
        newDealerIndex == IF dealerIndex = 0 THEN 1 ELSE (dealerIndex % n) + 1
        smallBlindIndex == (newDealerIndex % n) + 1
        bigBlindIndex == ((newDealerIndex + 1) % n) + 1
        firstToActIndex == ((newDealerIndex + 2) % n) + 1
        PostsSmall(p, i) == i = smallBlindIndex /\ p.chips >= SMALL_BLIND
        PostsBig(p, i) == ~PostsSmall(p, i) /\ i = bigBlindIndex /\ p.chips >= BIG_BLIND
        posted == (IF PostsSmall(ps[smallBlindIndex], smallBlindIndex) THEN SMALL_BLIND ELSE 0)
                  + (IF PostsBig(ps[bigBlindIndex], bigBlindIndex) THEN BIG_BLIND ELSE 0)
        ps1 == [i \in 1..Len(ps) |-> LET p == ps[i] IN
                   [p EXCEPT !.cards = 2, !.hasActed = FALSE, !.isAllIn = FALSE,
                             !.isWinner = FALSE,
                             !.isDealer = (i = newDealerIndex),
                             !.isTurn = (i = firstToActIndex),
                             !.isActive = TRUE,
                             !.chips = IF PostsSmall(p, i) THEN @ - SMALL_BLIND
                                       ELSE IF PostsBig(p, i) THEN @ - BIG_BLIND ELSE @,
                             !.currentBet = IF PostsSmall(p, i) THEN SMALL_BLIND
                                            ELSE IF PostsBig(p, i) THEN BIG_BLIND ELSE @]]
    IN IF n = 0 THEN Crash(w)
       ELSE StartTurnTimer(
               [w EXCEPT !.players = ps1,
                         !.deck = DealEach(w.deck, n),
                         !.pot = @ + posted,
                         !.lastBetPlayerId = IF PostsBig(ps[bigBlindIndex], bigBlindIndex)
                                             THEN ps[bigBlindIndex].id ELSE @,
                         !.currentBet = BIG_BLIND,
                         !.dealerId = ps[newDealerIndex].id,
                         !.activePlayerId = ps[firstToActIndex].id])

\* the callback a fold queues (750 ms)
OnFoldCheck(w) ==
    LET nActive == Cardinality({k \in DOMAIN w.players : w.players[k].isActive})
        win == FindIndex({k \in DOMAIN w.players : w.players[k].isActive})
    IN IF nActive = 1
       THEN Schedule([w EXCEPT !.players[win].chips = @ + w.pot,
                               !.players[win].isWinner = TRUE,
                               !.pot = 0],
                     Callback("newRound", FALSE))
       ELSE UpdateGameState(w)

\* the end of a countdown interval, or the 3 s / 10 s timeout that starts the next hand
OnNewRound(w) == StartNewRound(w)

\* the 2 s callback of case "pre-flop"
OnFlopDeal(w, allIn) ==
    LET w1 == [w EXCEPT !.communityCards = w.deck - DealCards(w.deck, 3),
                        !.deck = DealCards(w.deck, 3)]
        dealerIndex == FindIndex({k \in DOMAIN w1.players : w1.players[k].isDealer})
        next == NextIndex(w1.players, dealerIndex, TRUE)
        w2 == [w1 EXCEPT !.players = [i \in 1..Len(w1.players) |-> LET p == w1.players[i] IN
                            [p EXCEPT !.isTurn = (i = next),
                                      !.hasActed = IF CanAct(p) THEN FALSE ELSE @]],
                         !.activePlayerId = w1.players[next].id]
    IN IF Len(w1.players) = 0 THEN Crash(w1)
       ELSE IF next = 0 THEN Hang(w1)
       ELSE IF ~allIn THEN StartTurnTimer(w2)
       ELSE Schedule(w2, Callback("advance", TRUE))

\* the turn and river callbacks, had they opened a betting round also during
\* an all-in fast-forward
OnStreetDealAlwaysBets(w, allIn) ==
    ResetBettingRound([w EXCEPT !.communityCards = @ + (w.deck - DealCards(w.deck, 1)),
                                !.deck = DealCards(w.deck, 1)])

\* the 2 s callbacks of case "flop" and case "turn"
OnStreetDeal(w, allIn) ==
    LET w1 == [w EXCEPT !.communityCards = @ + (w.deck - DealCards(w.deck, 1)),
                        !.deck = DealCards(w.deck, 1)]
    IN IF ~allIn THEN ResetBettingRound(w1)
       ELSE Schedule(w1, Callback("advance", TRUE))

\* the 2 s callback of case "river"
OnShowdown(w, k) == Schedule(DetermineWinner(w, k), Callback("newRound", FALSE))

\* the 8 s callback of an all-in fast-forward
OnAdvance(w) == MoveToNextPhaseWithDelay(w, TRUE)

\* the timeout startTurnTimer queues
OnTurnTimer(w) ==
    LET w1 == [w EXCEPT !.turnTimer = FALSE]
        cur == FindIndex({k \in DOMAIN w1.players : w1.players[k].isTurn})
    IN IF cur = 0 THEN w1 ELSE HandleTimerExpiration(w1, w1.players[cur].id)

\* --------------------------------------------------------- socket handlers
OnJoinGame(w, id) == [w EXCEPT !.players = Append(@, NewPlayer(id))]

InSeq(s, x) == \E i \in 1..Len(s) : s[i] = x

\* the buyIn handler, had it validated the amount only
OnBuyInAnySeat(w, id, amount, seatNumber) ==
    LET i == IndexOfId(w.players, id)
    IN IF i = 0 \/ amount < MIN_BUY_IN THEN w
       ELSE [w EXCEPT !.players[i].chips = amount,
                      !.players[i].seatNumber = seatNumber,
                      !.players[i].isSittingOut = FALSE,
                      !.players[i].isReadyToPlay = TRUE,
                      !.availableSeats = SelectSeq(@, LAMBDA s : s # seatNumber)]

OnBuyIn(w, id, amount, seatNumber) ==
    LET i == IndexOfId(w.players, id)
        w1 == [w EXCEPT !.players[i].chips = amount,
                        !.players[i].seatNumber = seatNumber,
                        !.players[i].isSittingOut = FALSE,
                        !.players[i].isReadyToPlay = TRUE,
                        !.availableSeats = SelectSeq(@, LAMBDA s : s # seatNumber)]
        ready == Cardinality({k \in DOMAIN w1.players : w1.players[k].isReadyToPlay /\ ~w1.players[k].isSittingOut})
    IN IF i = 0 THEN w
       ELSE IF amount < MIN_BUY_IN \/ ~InSeq(w.availableSeats, seatNumber) THEN w
       ELSE IF ready >= 2 /\ w1.phase = "pre-flop" /\ w1.communityCards = 0
       THEN StartNewRound(w1)
       ELSE w1

OnSitOut(w, id) ==
    LET i == IndexOfId(w.players, id)
        w1 == [w EXCEPT !.players[i].isSittingOut = TRUE,
                        !.players[i].isActive = FALSE,
                        !.players[i].isReadyToPlay = FALSE]
    IN IF i = 0 THEN w
       ELSE IF w.players[i].isTurn THEN HandleTimerExpiration(w1, id)
       ELSE w1

OnSitIn(w, id) ==
    LET i == IndexOfId(w.players, id)
    IN IF i = 0 THEN w
       ELSE IF w.players[i].chips < MIN_BUY_IN THEN w
       ELSE [w EXCEPT !.players[i].isSittingOut = FALSE,
                      !.players[i].isReadyToPlay = TRUE]

OnAddChips(w, id, amount) ==
    LET i == IndexOfId(w.players, id)
    IN IF i = 0 \/ amount < MIN_BUY_IN THEN w
       ELSE [w EXCEPT !.players[i].chips = @ + amount]

\* a variant of the "action" handler that cancels the turn timer before it looks
\* at the sender
OnActionTimerFirst(w, id, action, amount) ==
    LET i == IndexOfId(w.players, id)
    IN IF i = 0 \/ ~w.players[i].isTurn THEN [w EXCEPT !.turnTimer = FALSE]
       ELSE HandleAction(w, action, amount, id)

OnAction(w, id, action, amount) ==
    LET i == IndexOfId(w.players, id)
    IN IF i = 0 THEN w
       ELSE IF ~w.players[i].isTurn THEN w
       ELSE HandleAction(w, action, amount, id)

\* the disconnect handler, had it not given the seat back
OnDisconnectSeatKept(w, id) ==
    LET i == IndexOfId(w.players, id)
        w2 == IF i # 0 /\ w.players[i].isTurn THEN HandleTimerExpiration(w, id) ELSE w
        w3 == IF w2.activePlayerId = id THEN [w2 EXCEPT !.turnTimer = FALSE] ELSE w2
        w4 == [w3 EXCEPT !.players = SelectSeq(@, LAMBDA p : p.id # id)]
    IN IF Cardinality({k \in DOMAIN w4.players : ~w4.players[k].isSittingOut}) < 2
       THEN [w4 EXCEPT !.communityCards = 0, !.pot = 0, !.currentBet = 0,
                       !.phase = "pre-flop", !.activePlayerId = NoId,
                       !.dealerId = NoId, !.lastBetPlayerId = NoId]
       ELSE w4

OnDisconnect(w, id) ==
    LET i == IndexOfId(w.players, id)
        w1 == IF i # 0 /\ w.players[i].seatNumber # NoSeat
              THEN [w EXCEPT !.availableSeats =
                        SortSeq(Append(@, w.players[i].seatNumber), LAMBDA a, b : a < b)]
              ELSE w
        w2 == IF i # 0 /\ w.players[i].isTurn THEN HandleTimerExpiration(w1, id) ELSE w1
        w3 == IF w2.activePlayerId = id THEN [w2 EXCEPT !.turnTimer = FALSE] ELSE w2
        w4 == [w3 EXCEPT !.players = SelectSeq(@, LAMBDA p : p.id # id)]
    IN IF Cardinality({k \in DOMAIN w4.players : ~w4.players[k].isSittingOut}) < 2
       THEN [w4 EXCEPT !.communityCards = 0, !.pot = 0, !.currentBet = 0,
                       !.phase = "pre-flop", !.activePlayerId = NoId,
                       !.dealerId = NoId, !.lastBetPlayerId = NoId]
       ELSE w4

\* ------------------------------------------------------------ the machine
Event(kind, id, action, amount, seat) ==
    [kind |-> kind, id |-> id, action |-> action, amount |-> amount, seat |-> seat]

\* One step of the event loop: the handler's result w becomes the state and ev
\* names the event or callback handled.  A handler that changes nothing takes
\* no step (it is a stuttering step of the specification).
Step(w, e) ==
    /\ status = "running"
    /\ w # World
    /\ Within(w)
    /\ Commit(w)
    /\ ev' = e
    /\ UNCHANGED <<evalCards, handResult>>

Unqueue(w, cb) == [w EXCEPT !.pending = @ (-) SetToBag({cb})]

\* the table and the event loop after the module has loaded
TableInit ==
    /\ players = << >>
    /\ communityCards = 0
    /\ deck = 0
    /\ pot = 0
    /\ currentBet = 0
    /\ phase = "pre-flop"
    /\ activePlayerId = NoId
    /\ dealerId = NoId
    /\ lastBetPlayerId = NoId
    /\ availableSeats = [i \in 1..MAX_PLAYERS |-> i - 1]
    /\ turnTimer = FALSE
    /\ pending = EmptyBag
    /\ status = "running"
    /\ hands = 0
    /\ budget = [joined |-> 0, extras |-> 0, raises |-> 0]
    /\ ev = Event("init", NoId, "", 0, NoSeat)

Init ==
    /\ TableInit
    /\ evalCards = << >>
    /\ handResult = NoResult

\* a socket event: its handler's result w becomes the state, within the bounds
ClientEvent(w, e, extra) ==
    LET disturbs == extra \/ pending # EmptyBag \/ hands >= MaxHands
        raises == e.action = "raise"
    IN /\ disturbs => budget.extras < MaxExtras
       /\ raises => budget.raises < MaxRaises
       /\ Step(w, e)
       /\ budget' = [budget EXCEPT !.extras = IF disturbs THEN @ + 1 ELSE @,
                                   !.raises = IF raises THEN @ + 1 ELSE @,
                                   !.joined = IF e.kind = "joinGame" THEN @ + 1 ELSE @]

\* a queued callback runs
CallbackRuns(w, e) ==
    /\ budget' = budget
    /\ Step(w, e)

JoinGame ==
    /\ budget.joined < MaxConnections
    /\ ClientEvent(OnJoinGame(World, budget.joined + 1),
                   Event("joinGame", budget.joined + 1, "", 0, NoSeat), hands > 0)

BuyIn ==
    \E id \in Ids, amount \in BuyInAmounts, seat \in SeatChoices :
        ClientEvent(OnBuyIn(World, id, amount, seat), Event("buyIn", id, "", amount, seat),
                    hands > 0)

SitOut == \E id \in Ids : ClientEvent(OnSitOut(World, id), Event("sitOut", id, "", 0, NoSeat), TRUE)

SitIn == \E id \in Ids : ClientEvent(OnSitIn(World, id), Event("sitIn", id, "", 0, NoSeat), TRUE)

AddChips ==
    \E id \in Ids, amount \in AddChipsAmounts :
        ClientEvent(OnAddChips(World, id, amount), Event("addChips", id, "", amount, NoSeat), TRUE)

Action ==
    \E id \in Ids, action \in ActionTypes :
        \E amount \in (IF action = "raise" THEN RaiseAmounts ELSE {0}) :
            ClientEvent(OnAction(World, id, action, amount),
                        Event("action", id, action, amount, NoSeat),
                        action \notin {"fold", "check", "call", "raise"})

Disconnect ==
    \E id \in Ids \cup {Stranger} :
        ClientEvent(OnDisconnect(World, id), Event("disconnect", id, "", 0, NoSeat), TRUE)

TurnTimerFires ==
    /\ turnTimer
    /\ CallbackRuns(OnTurnTimer(World), Event("turnTimer", NoId, "", 0, NoSeat))

Queued(kind, allIn) == BagIn(Callback(kind, allIn), pending)

DealFires ==
    /\ Queued("deal", FALSE)
    /\ CallbackRuns(OnDeal(Unqueue(World, Callback("deal", FALSE))),
                    Event("deal", NoId, "", 0, NoSeat))

FoldCheckFires ==
    /\ Queued("foldCheck", FALSE)
    /\ CallbackRuns(OnFoldCheck(Unqueue(World, Callback("foldCheck", FALSE))),
                    Event("foldCheck", NoId, "", 0, NoSeat))

NewRoundFires ==
    /\ Queued("newRound", FALSE)
    /\ CallbackRuns(OnNewRound(Unqueue(World, Callback("newRound", FALSE))),
                    Event("newRound", NoId, "", 0, NoSeat))

FlopDealFires ==
    \E allIn \in BOOLEAN :
        /\ Queued("flopDeal", allIn)
        /\ CallbackRuns(OnFlopDeal(Unqueue(World, Callback("flopDeal", allIn)), allIn),
                        Event("flopDeal", NoId, "", 0, NoSeat))

StreetDealFires ==
    \E kind \in {"turnDeal", "riverDeal"}, allIn \in BOOLEAN :
        /\ Queued(kind, allIn)
        /\ CallbackRuns(OnStreetDeal(Unqueue(World, Callback(kind, allIn)), allIn),
                        Event(kind, NoId, "", 0, NoSeat))

ShowdownFires ==
    \E allIn \in BOOLEAN :
        /\ Queued("showdown", allIn)
        /\ LET w == Unqueue(World, Callback("showdown", allIn))
               nActive == Cardinality({k \in DOMAIN players : players[k].isActive})
           IN \E k \in 1..(IF nActive = 0 THEN 1 ELSE nActive) :
                  CallbackRuns(OnShowdown(w, k), Event("showdown", NoId, "", 0, NoSeat))

AdvanceFires ==
    /\ Queued("advance", TRUE)
    /\ CallbackRuns(OnAdvance(Unqueue(World, Callback("advance", TRUE))),
                    Event("advance", NoId, "", 0, NoSeat))

Next ==
    \/ JoinGame
    \/ BuyIn
    \/ SitOut
    \/ SitIn
    \/ AddChips
    \/ Action
    \/ Disconnect
    \/ TurnTimerFires
    \/ DealFires
    \/ FoldCheckFires
    \/ NewRoundFires
    \/ FlopDealFires
    \/ StreetDealFires
    \/ ShowdownFires
    \/ AdvanceFires

Spec == Init /\ [][Next]_vars

\* -------------------------------------------------------------- properties
BettingPhases == {"pre-flop", "flop", "turn", "river"}

RECURSIVE SumChipsTo(_, _)
SumChipsTo(ps, n) == IF n = 0 THEN 0 ELSE ps[n].chips + SumChipsTo(ps, n - 1)
SumChips(ps) == SumChipsTo(ps, Len(ps))

RECURSIVE SumBetsTo(_, _)
SumBetsTo(ps, n) == IF n = 0 THEN 0 ELSE ps[n].currentBet + SumBetsTo(ps, n - 1)
SumBets(ps) == SumBetsTo(ps, Len(ps))

NumActive(ps) == Cardinality({k \in DOMAIN ps : ps[k].isActive})

\* id is the player whose action events reach the switch of handleAction
IsTurnHolder(id) ==
    LET i == IndexOfId(players, id)
    IN i # 0 /\ players[i].isTurn /\ id = activePlayerId

\* the server is waiting for a turn-holder's decision: a hand is dealt, no
\* callback is queued and the turn timer runs
AwaitingTurn == status = "running" /\ phase \in BettingPhases /\ pending = EmptyBag /\ turnTimer

\* the action events a client sends: the four actions, a raise with each amount
PlayerInputs ==
    {<<a, 0>> : a \in {"fold", "check", "call"}} \cup {<<"raise", m>> : m \in RaiseAmounts}

\* the action event <<action, amount>> of the turn-holder is accepted
Accepted(i, in) ==
    CASE in[1] = "check" -> CanCheck(World, i)
      [] in[1] = "raise" -> in[2] # 0 /\ IsValidRaise(World, i, in[2])
      [] OTHER -> TRUE

\* what the claimed quantity and the chips actually on the table amount to
ClaimedTotal(w) == SumChips(w.players) + w.pot + SumBets(w.players)
ChipsOnTable(w) == SumChips(w.players) + w.pot

\* P holds of the state before and the state after each blind posting and each
\* accepted action of the turn-holder
OverHandSteps(P(_, _)) ==
    /\ Queued("deal", FALSE) => P(World, OnDeal(Unqueue(World, Callback("deal", FALSE))))
    /\ \A id \in Ids, in \in PlayerInputs :
           (IsTurnHolder(id) /\ Accepted(IndexOfId(players, id), in))
               => P(World, OnAction(World, id, in[1], in[2]))

\* C1 as the specification states it: the sum of all chips, the pot and all
\* current bets is the same before and after each blind posting and each
\* accepted fold, check, call or raise.
C1_ClaimedTotalConserved == OverHandSteps(LAMBDA w, r : ClaimedTotal(r) = ClaimedTotal(w))

\* C1 as the code has it: the sum of all chips and the pot is the same before
\* and after each blind posting and each accepted fold, check, call or raise
\* (a wager is added to the pot at once, so the pot already holds every
\* current bet).
C1_ChipsOnTableConserved == OverHandSteps(LAMBDA w, r : ChipsOnTable(r) = ChipsOnTable(w))

\* a call has just moved chips from the caller's stack to the pot
C1_CallPaid ==
    /\ ev.kind = "action" /\ ev.action = "call"
    /\ pot = SMALL_BLIND + BIG_BLIND + SMALL_BLIND
    /\ \E i \in 1..Len(players) : players[i].id = ev.id /\ players[i].chips = 40

\* C2: when a turn-timer expiry, a sitOut or a disconnect during a betting
\* round leaves exactly one player with isActive = true, that player's chips
\* grow by the whole pot and the next hand is scheduled.
C2_Awarded(w, r) ==
    (NumActive(w.players) >= 2 /\ NumActive(r.players) = 1)
        => /\ \E i \in 1..Len(w.players), j \in 1..Len(r.players) :
                  /\ r.players[j].isActive
                  /\ r.players[j].id = w.players[i].id
                  /\ r.players[j].chips = w.players[i].chips + w.pot
           /\ BagIn(Callback("newRound", FALSE), r.pending)

C2_LastPlayerWinsPot ==
    AwaitingTurn =>
        /\ C2_Awarded(World, OnTurnTimer(World))
        /\ \A id \in Ids : /\ C2_Awarded(World, OnSitOut(World, id))
                           /\ C2_Awarded(World, OnDisconnect(World, id))

\* C3: an action event of a player who does not hold the turn (not on the
\* roster, isTurn false, or an id other than activePlayerId) changes nothing,
\* the pending turn timer included.
C3_OutOfTurnIgnored ==
    \A id \in Ids \cup {Stranger}, action \in ActionTypes, amount \in RaiseAmounts :
        ~IsTurnHolder(id) => OnAction(World, id, action, amount) = World

\* a player who does not hold the turn sends a raise while another player is
\* on the clock, and the state stays as it is
C3_OutOfTurnRaise ==
    /\ AwaitingTurn
    /\ \E i, j \in 1..Len(players) :
           /\ players[i].isTurn /\ players[i].id = activePlayerId
           /\ ~players[j].isTurn /\ players[j].isActive /\ players[j].chips >= 40
           /\ OnAction(World, players[j].id, "raise", 40) = World

\* C4: in every reachable state the player holding the turn is contesting, is
\* not all-in and has chips.
C4_TurnHolderCanAct ==
    \A i \in 1..Len(players) :
        players[i].isTurn
            => players[i].isActive /\ ~players[i].isAllIn /\ players[i].chips > 0

\* every contesting player who is not all-in has acted and has matched the bet
RoundComplete(w) ==
    \A i \in 1..Len(w.players) :
        CanAct(w.players[i]) => w.players[i].hasActed /\ w.players[i].currentBet = w.currentBet

\* the state the completion check sees after the accepted action <<action, amount>>
AfterAction(i, in) ==
    LET w1 == [World EXCEPT !.turnTimer = FALSE]
    IN CASE in[1] = "check" -> Check(w1, i)
         [] in[1] = "call" -> Call(w1, i)
         [] in[1] = "raise" -> Raise(w1, i, in[2])

\* in r the turn is with the first contesting player who is not all-in that
\* follows players[i] of a, in roster order
TurnPassed(a, r, i) ==
    LET n == Len(a.players)
        at(k) == ((i + k - 1) % n) + 1
    IN \E k \in 1..n :
           /\ CanAct(a.players[at(k)])
           /\ \A m \in 1..(k - 1) : ~CanAct(a.players[at(m)])
           /\ r.activePlayerId = a.players[at(k)].id
           /\ \A j \in 1..n : r.players[j].isTurn <=> j = at(k)

\* from a, the completion check either begins the street advance or passes the turn
Completion(a, r, i) ==
    IF RoundComplete(a)
    THEN r.phase # a.phase /\ BagCardinality(r.pending) = BagCardinality(a.pending) + 1
    ELSE r.phase = a.phase /\ r.pending = a.pending /\ TurnPassed(a, r, i)

\* C5: after every accepted check, call or raise of a betting phase, and when
\* the callback of a fold finds the hand still contested, the betting round is
\* declared complete (the phase advances and the street's callback is queued)
\* if and only if every contesting player who is not all-in has acted and has
\* matched table.currentBet; otherwise the phase stays and the turn passes to
\* the next contesting player who is not all-in.
C5_CompletionCheck ==
    phase \in BettingPhases =>
        /\ \A id \in Ids, in \in PlayerInputs :
               LET i == IndexOfId(players, id)
               IN (IsTurnHolder(id) /\ in[1] # "fold" /\ Accepted(i, in))
                      => Completion(AfterAction(i, in), OnAction(World, id, in[1], in[2]), i)
        /\ (Queued("foldCheck", FALSE) /\ NumActive(players) # 1)
               => LET a == Unqueue(World, Callback("foldCheck", FALSE))
                  IN Completion(a, OnFoldCheck(a), FindIndex({k \in DOMAIN players : players[k].isTurn}))

\* the big blind's check has completed the pre-flop round after the small
\* blind's call: the flop is about to be dealt
C5_BigBlindCheckCompletes ==
    /\ ev.kind = "action" /\ ev.action = "check"
    /\ phase = "flop" /\ communityCards = 0 /\ Queued("flopDeal", FALSE)
    /\ pot = BIG_BLIND + BIG_BLIND

Max(a, b) == IF a >= b THEN a ELSE b

\* the handler did nothing to the table but cancel the turn timer
Rejected(r) == r = [World EXCEPT !.turnTimer = FALSE]

\* C6: a raise of the turn-holder is accepted if and only if amount >= chips
\* or amount >= table.currentBet + max(table.currentBet, BIG_BLIND); any other
\* raise changes nothing.
C6_RaiseAcceptedIffLegal ==
    AwaitingTurn =>
        \A id \in Ids, amount \in RaiseAmounts \ {0} :
            LET i == IndexOfId(players, id)
                legal == \/ amount >= players[i].chips
                         \/ amount >= currentBet + Max(currentBet, BIG_BLIND)
            IN IsTurnHolder(id) => (legal <=> ~Rejected(OnAction(World, id, "raise", amount)))

\* what C7 says of the state r after the raise of players[i]
C7_Reopened(r, i) ==
    /\ r.currentBet = r.players[i].currentBet
    /\ r.lastBetPlayerId = r.players[i].id
    /\ r.players[i].hasActed
    /\ \A j \in 1..Len(r.players) : (j # i /\ CanAct(r.players[j])) => ~r.players[j].hasActed

C7_AcceptedRaises(P(_, _)) ==
    \A id \in Ids, amount \in RaiseAmounts :
        LET i == IndexOfId(players, id)
        IN (IsTurnHolder(id) /\ Accepted(i, <<"raise", amount>>))
               => P(OnAction(World, id, "raise", amount), i)

C8_Checks(Rule(_, _)) ==
    \A id \in Ids :
        LET i == IndexOfId(players, id)
            r == OnAction(World, id, "check", 0)
        IN IsTurnHolder(id) =>
               /\ currentBet > players[i].currentBet => Rejected(r)
               /\ currentBet = players[i].currentBet => Rule(r, i)

C9_MalformedIgnored ==
    AwaitingTurn =>
        \A id \in Ids, in \in {<<"bet", 0>>, <<"raise", 0>>} :
            IsTurnHolder(id) =>
                LET r == OnAction(World, id, in[1], in[2])
                IN /\ r.players = players /\ r.pot = pot /\ r.currentBet = currentBet
                   /\ r.phase = phase /\ r.activePlayerId = activePlayerId
                   /\ r.lastBetPlayerId = lastBetPlayerId /\ r.pending = pending

\* C10: whenever a betting phase waits for the turn-holder (no callback is
\* queued, the player with the turn is contesting and not all-in, the round is
\* not complete), the turn timer is pending.
C10_TimerWhileWaiting ==
    (/\ status = "running" /\ phase \in BettingPhases /\ pending = EmptyBag
     /\ ~RoundComplete(World)
     /\ \E i \in 1..Len(players) :
            players[i].isTurn /\ players[i].id = activePlayerId /\ CanAct(players[i]))
        => turnTimer

\* the roster as the completion check sees it once players[i] has timed out
TimedOut(i) ==
    [World EXCEPT !.turnTimer = FALSE,
                  !.players[i].isSittingOut = TRUE,
                  !.players[i].isActive = FALSE]

\* C11: when the turn timer expires in a betting phase, the turn-holder is
\* set isSittingOut = true and isActive = false, their stack and the pot keep
\* the chips as they were (nothing is handed back), and if two or more
\* contesting players remain, either the round completes (the phase advances
\* and the street's callback is queued) or the turn passes to the next
\* contesting player who is not all-in and a turn timer runs for that player.
C11_TimerExpiry ==
    (status = "running" /\ turnTimer /\ phase \in BettingPhases) =>
        LET i == FindIndex({k \in DOMAIN players : players[k].isTurn})
            r == OnTurnTimer(World)
        IN i # 0 =>
               /\ r.players[i].isSittingOut /\ ~r.players[i].isActive
               /\ r.players[i].chips = players[i].chips
               /\ r.pot = pot
               /\ NumActive(r.players) >= 2 =>
                      /\ Completion(TimedOut(i), r, i)
                      /\ ~RoundComplete(TimedOut(i)) => r.turnTimer

\* the timer of a player who had chips in the pot has expired with two
\* opponents left, and the next of them is on the clock
C11_TimedOutOfThree ==
    /\ ev.kind = "turnTimer" /\ turnTimer /\ phase \in BettingPhases
    /\ NumActive(players) >= 2
    /\ \E i, j \in 1..Len(players) :
           /\ players[i].isSittingOut /\ ~players[i].isActive /\ players[i].currentBet > 0
           /\ players[j].isTurn /\ players[j].id = activePlayerId /\ CanAct(players[j])

\* the states the queued callback cb can leave behind when it fires
CallbackResults(cb) ==
    LET w == Unqueue(World, cb)
        nActive == NumActive(players)
    IN CASE cb.kind = "deal" -> {OnDeal(w)}
         [] cb.kind = "foldCheck" -> {OnFoldCheck(w)}
         [] cb.kind = "newRound" -> {OnNewRound(w)}
         [] cb.kind = "flopDeal" -> {OnFlopDeal(w, cb.allIn)}
         [] cb.kind \in {"turnDeal", "riverDeal"} -> {OnStreetDeal(w, cb.allIn)}
         [] cb.kind = "showdown" ->
                {OnShowdown(w, k) : k \in 1..(IF nActive = 0 THEN 1 ELSE nActive)}
         [] cb.kind = "advance" -> {OnAdvance(w)}

\* a disconnect has just reset the table: fewer than two players who are not
\* sitting out are left, so every callback still queued and a turn timer still
\* running were created for a hand that is over
TableReset ==
    /\ status = "running" /\ ev.kind = "disconnect" /\ hands >= 1
    /\ Cardinality({k \in DOMAIN players : ~players[k].isSittingOut}) < 2

\* C12: a callback created for one hand that fires after the table has been
\* reset performs no state mutation: right after a reset, every queued
\* callback leaves the state as it is but for its own removal from the queue,
\* and so does the turn timer.
C12_StaleCallbackInert ==
    TableReset =>
        /\ \A cb \in BagToSet(pending) : CallbackResults(cb) = {Unqueue(World, cb)}
        /\ turnTimer => OnTurnTimer(World) = [World EXCEPT !.turnTimer = FALSE]

\* how many street-advance callbacks (the 2 s dealing callbacks of nextPhase
\* and the 8 s callbacks of an all-in fast-forward) are queued in w
StreetCallbacks(w) ==
    LET n(kind) == CopiesIn(Callback(kind, FALSE), w.pending)
                       + CopiesIn(Callback(kind, TRUE), w.pending)
    IN n("flopDeal") + n("turnDeal") + n("riverDeal") + n("showdown") + n("advance")

\* C13: at any time at most one street-advance callback is outstanding, also
\* after any action event a client may send next (the single turnTimer handle
\* of the model already holds at most one turn timer).
C13_OneStreetCallback ==
    /\ StreetCallbacks(World) <= 1
    /\ \A id \in Ids, in \in PlayerInputs :
           StreetCallbacks(OnAction(World, id, in[1], in[2])) <= 1

\* a hand has been dealt and has not ended: the table has a dealer (it was not
\* reset), the phase is a betting phase, no pot has been awarded and somebody
\* is still contesting
HandOpen ==
    /\ status = "running" /\ dealerId # NoId /\ phase \in BettingPhases
    /\ NumActive(players) >= 1
    /\ \A i \in 1..Len(players) : ~players[i].isWinner

\* C14: a dealt hand always ends when the outstanding timers fire, whatever
\* the players send or fail to send; so the table never rests in a betting
\* phase of an open hand with no callback queued and no turn timer pending
\* unless a turn-holder who is able to act (contesting, not all-in) exists.
C14_NeverAtRest ==
    (HandOpen /\ pending = EmptyBag /\ ~turnTimer)
        => \E i \in 1..Len(players) :
               players[i].isTurn /\ players[i].id = activePlayerId /\ CanAct(players[i])

\* C15: the showdown settles the pot as a function of the table (the same
\* cards always give the same winner): when the showdown callback is due, it
\* has one possible outcome.
C15_WinnerDetermined ==
    \A cb \in BagToSet(pending) :
        (status = "running" /\ cb.kind = "showdown")
            => Cardinality(CallbackResults(cb)) = 1

\* the community cards a phase shows once its street is dealt
CardsOf(ph) ==
    CASE ph = "pre-flop" -> 0
      [] ph = "flop" -> 3
      [] ph = "turn" -> 4
      [] OTHER -> 5

\* the phase that follows ph, the phase before it and the 2 s callback that
\* nextPhase queues on entering ph
PhaseAfter(ph) ==
    CASE ph = "pre-flop" -> "flop"
      [] ph = "flop" -> "turn"
      [] ph = "turn" -> "river"
      [] OTHER -> "showdown"

PhaseBefore(ph) ==
    CASE ph = "showdown" -> "river"
      [] ph = "river" -> "turn"
      [] ph = "turn" -> "flop"
      [] OTHER -> "pre-flop"

StreetKind(ph) ==
    CASE ph = "flop" -> "flopDeal"
      [] ph = "turn" -> "turnDeal"
      [] ph = "river" -> "riverDeal"
      [] OTHER -> "showdown"

\* two or more players contest the pot and each of them is all-in or has no chips
AllAllIn(w) ==
    /\ NumActive(w.players) >= 2
    /\ \A i \in 1..Len(w.players) :
           w.players[i].isActive => (w.players[i].isAllIn \/ w.players[i].chips = 0)

\* a fast-forward has entered phase ph of w and the 2 s callback that deals
\* its street (or settles the showdown) is queued
Dealing(w, ph) ==
    /\ w.status = "running" /\ w.phase = ph
    /\ BagIn(Callback(StreetKind(ph), TRUE), w.pending)
    /\ w.communityCards = CardsOf(PhaseBefore(ph))

\* a fast-forward has dealt the street of phase ph of w and the 8 s callback
\* that moves on is queued
Paused(w, ph) ==
    /\ w.status = "running" /\ w.phase = ph
    /\ BagIn(Callback("advance", TRUE), w.pending)
    /\ w.communityCards = CardsOf(ph)

\* the pot of w has been added to the chips of a contesting player of r and
\* the next hand is scheduled
Settled(w, r) ==
    /\ \E i \in 1..Len(w.players) :
           /\ r.players[i].isActive /\ r.players[i].isWinner
           /\ r.players[i].chips = w.players[i].chips + w.pot
    /\ BagIn(Callback("newRound", FALSE), r.pending)

RoundOpened(r) ==
    LET d == FindIndex({k \in DOMAIN r.players : r.players[k].isDealer})
    IN /\ r.currentBet = 0
       /\ \A i \in 1..Len(r.players) :
              CanAct(r.players[i]) => r.players[i].currentBet = 0 /\ ~r.players[i].hasActed
       /\ d # 0 /\ TurnPassed(r, r, d)

\* C17: each street callback deals exactly 3 community cards (flop) or
\* exactly 1 (turn, river), and the betting round it opens starts with
\* table.currentBet = 0, with currentBet = 0 and hasActed = false for every
\* contesting player who is not all-in, and with the turn at the first such
\* player after the dealer.
C17_StreetOpens ==
    \A cb \in BagToSet(pending) :
        (/\ status = "running"
         /\ cb.kind \in {"flopDeal", "turnDeal", "riverDeal"}
         /\ \E i \in 1..Len(players) : CanAct(players[i]))
            => \A r \in CallbackResults(cb) :
                   /\ r.communityCards = (IF cb.kind = "flopDeal" THEN 3 ELSE communityCards + 1)
                   /\ r.deck = deck - (IF cb.kind = "flopDeal" THEN 3 ELSE 1)
                   /\ ~cb.allIn => RoundOpened(r)

\* C18: in every reachable state the number of community cards matches the
\* phase: 0 in pre-flop, 3 in flop, 4 in turn, 5 in river and showdown.
C18_CardsMatchPhase == status = "running" => communityCards = CardsOf(phase)

\* the highest currentBet among the players contesting the pot (0 if nobody is)
MaxActiveBet(w) ==
    LET bets == {w.players[i].currentBet : i \in {k \in DOMAIN w.players : w.players[k].isActive}}
    IN IF bets = {} THEN 0 ELSE CHOOSE b \in bets : \A c \in bets : c <= b

\* C19: in every reachable state of a betting round (a hand is dealt, a turn
\* timer runs and no callback is queued), table.currentBet equals the highest
\* currentBet among the players with isActive = true.
C19_CurrentBetIsMax == AwaitingTurn => currentBet = MaxActiveBet(World)

\* how many players have isTurn = true
NumTurn(ps) == Cardinality({k \in DOMAIN ps : ps[k].isTurn})

\* C20: in every reachable state at most one player has isTurn = true, and
\* nobody has while a hand is being dealt (the deal callback is queued), while
\* a street is being advanced (a street callback is queued) or during and
\* after settlement until the next hand is dealt (a winner is marked or the
\* next hand is scheduled).
C20_TurnFlag ==
    status = "running" =>
        /\ NumTurn(players) <= 1
        /\ (\/ Queued("deal", FALSE)
            \/ StreetCallbacks(World) >= 1
            \/ Queued("newRound", FALSE)
            \/ \E i \in 1..Len(players) : players[i].isWinner)
               => NumTurn(players) = 0

\* the seat numbers of the table and the seats held by rostered players
AllSeats == 0..(MAX_PLAYERS - 1)
OccupiedSeats(w) ==
    {w.players[i].seatNumber : i \in {k \in DOMAIN w.players : w.players[k].seatNumber # NoSeat}}
FreeSeats(w) == {w.availableSeats[i] : i \in DOMAIN w.availableSeats}

\* C21: in every reachable state the seat numbers held by rostered players
\* are pairwise distinct and lie in 0..maxSeats-1, no seat is listed twice in
\* availableSeats, no seat is both available and occupied, and availableSeats
\* together with the occupied seats is exactly 0..maxSeats-1 (no seat lost).
C21_SeatsPartition ==
    /\ \A i, j \in 1..Len(players) :
           (i # j /\ players[i].seatNumber # NoSeat)
               => players[i].seatNumber # players[j].seatNumber
    /\ OccupiedSeats(World) \subseteq AllSeats
    /\ Cardinality(FreeSeats(World)) = Len(availableSeats)
    /\ FreeSeats(World) \cap OccupiedSeats(World) = {}
    /\ FreeSeats(World) \cup OccupiedSeats(World) = AllSeats

\* the buyIn requests a client may send: an amount below or above the minimum,
\* a seat of the table or a seat number the table does not have
BuyInRequests == BuyInAmounts \X (SeatChoices \cup {MAX_PLAYERS})

\* C22: a buyIn takes effect only if the sender is on the roster, amount >=
\* minBuyIn and the seat is in availableSeats; then the player holds that
\* seat, has chips = amount, isSittingOut = false and isReadyToPlay = true and
\* the seat is no longer in availableSeats. Every other buyIn leaves the
\* player, availableSeats and the rest of the state as they were.
C22_BuyIn ==
    \A id \in Ids \cup {Stranger}, rq \in BuyInRequests :
        LET i == IndexOfId(players, id)
            r == OnBuyIn(World, id, rq[1], rq[2])
        IN IF i # 0 /\ rq[1] >= MIN_BUY_IN /\ rq[2] \in FreeSeats(World)
           THEN /\ r.players[i].seatNumber = rq[2]
                /\ r.players[i].chips = rq[1]
                /\ ~r.players[i].isSittingOut /\ r.players[i].isReadyToPlay
                /\ rq[2] \notin FreeSeats(r)
           ELSE r = World

\* a buyIn has just seated a player, and a second player's buyIn into the same
\* seat, like one below the minimum, would change nothing
C22_SeatTaken ==
    /\ ev.kind = "buyIn" /\ ev.amount >= MIN_BUY_IN
    /\ \E i, j \in 1..Len(players) :
           /\ players[i].id = ev.id /\ players[i].seatNumber = ev.seat
           /\ players[i].chips = ev.amount /\ ev.seat \notin FreeSeats(World)
           /\ j # i
           /\ OnBuyIn(World, players[j].id, 60, ev.seat) = World
           /\ OnBuyIn(World, players[j].id, 10, 1 - ev.seat) = World

\* how often seat s is listed in the availableSeats of w
TimesAvailable(w, s) == Cardinality({k \in DOMAIN w.availableSeats : w.availableSeats[k] = s})

\* C23: when a seated player disconnects, the player is no longer on the
\* roster and their seat is listed in availableSeats exactly once; a buyIn of
\* at least minBuyIn by any other rostered player into that seat then takes
\* effect.
C23_SeatReuse ==
    \A id \in Ids :
        LET i == IndexOfId(players, id)
            r == OnDisconnect(World, id)
        IN (status = "running" /\ i # 0 /\ players[i].seatNumber # NoSeat)
               => /\ IndexOfId(r.players, id) = 0
                  /\ TimesAvailable(r, players[i].seatNumber) = 1
                  /\ \A j \in 1..Len(r.players) :
                         LET r2 == OnBuyIn(r, r.players[j].id, 60, players[i].seatNumber)
                         IN /\ r2.players[j].seatNumber = players[i].seatNumber
                            /\ r2.players[j].chips = 60
                            /\ TimesAvailable(r2, players[i].seatNumber) = 0

\* the player of one of the two seats in use has disconnected after a hand
\* began: the seat is available again, the other seat's player is still there
\* and their buyIn into the freed seat would take effect
C23_SeatFreed ==
    /\ ev.kind = "disconnect" /\ hands >= 1 /\ \A i \in 1..Len(players) : players[i].id # ev.id
    /\ Len(availableSeats) = MAX_PLAYERS - 1
    /\ \E s \in SeatChoices, j \in 1..Len(players) :
           /\ TimesAvailable(World, s) = 1
           /\ players[j].seatNumber = 1 - s
           /\ OnBuyIn(World, players[j].id, 60, s).players[j].seatNumber = s

\* p may take part in a hand: seated, with chips, ready and not sitting out
Eligible(p) == p.seatNumber # NoSeat /\ p.chips > 0 /\ p.isReadyToPlay /\ ~p.isSittingOut

NumEligible(ps) == Cardinality({k \in DOMAIN ps : Eligible(ps[k])})

\* C24: a hand is dealt (the deal callback hands out hole cards and posts the
\* blinds) only when at least two rostered players are seated, have chips > 0,
\* are isReadyToPlay and are not sitting out, however the hand was started.
C24_DealNeedsTwo ==
    (status = "running" /\ Queued("deal", FALSE))
        => LET r == OnDeal(Unqueue(World, Callback("deal", FALSE)))
           IN (r.status = "running" /\ \E i \in 1..Len(r.players) : r.players[i].cards = 2)
                  => NumEligible(players) >= 2

\* C25: the deal callback gives hole cards, isActive = true, the dealer
\* button, a blind and the first turn only to players who are seated and not
\* sitting out; a player who has only joined, is sitting out or has busted is
\* not contesting in the hand it deals.
C25_DealtInAreSeated ==
    (status = "running" /\ Queued("deal", FALSE))
        => LET r == OnDeal(Unqueue(World, Callback("deal", FALSE)))
           IN r.status = "running" =>
                  \A i \in 1..Len(players) :
                      (\/ r.players[i].cards = 2 \/ r.players[i].isActive
                       \/ r.players[i].isDealer \/ r.players[i].isTurn
                       \/ r.players[i].chips < players[i].chips)
                          => players[i].seatNumber # NoSeat /\ ~players[i].isSittingOut

\* C26: when the deal callback starts a hand among two or more rostered
\* players, the player after the dealer posts min(chips, smallBlind) and the
\* next one min(chips, bigBlind); each posted amount leaves that player's
\* chips and is added to their currentBet and to the pot; afterwards
\* table.currentBet is the big blind and lastBetPlayerId is the big-blind
\* player.
C26_BlindsPosted ==
    (status = "running" /\ Queued("deal", FALSE) /\ Len(players) >= 2)
        => LET r == OnDeal(Unqueue(World, Callback("deal", FALSE)))
               n == Len(players)
               d == FindIndex({k \in DOMAIN r.players : r.players[k].isDealer})
               sb == (d % n) + 1
               bb == ((d + 1) % n) + 1
               small == Min(players[sb].chips, SMALL_BLIND)
               big == Min(players[bb].chips, BIG_BLIND)
           IN /\ r.players[sb].chips = players[sb].chips - small
              /\ r.players[sb].currentBet = players[sb].currentBet + small
              /\ r.players[bb].chips = players[bb].chips - big
              /\ r.players[bb].currentBet = players[bb].currentBet + big
              /\ r.pot = pot + small + big
              /\ r.currentBet = BIG_BLIND
              /\ r.lastBetPlayerId = players[bb].id

\* how many new hands are on their way in w: startNewRound calls that are
\* scheduled and deal callbacks that are queued
HandsOnTheWay(w) ==
    CopiesIn(Callback("newRound", FALSE), w.pending)
        + CopiesIn(Callback("deal", FALSE), w.pending)

\* C27: each settlement leads to exactly one new hand, so that the deal
\* callback runs once per hand, the button moves once and each blind is taken
\* once: at no time is more than one new hand on its way, and the showdown
\* callback schedules exactly one.
C27_OneNewHand ==
    status = "running" =>
        /\ HandsOnTheWay(World) <= 1
        /\ \A cb \in BagToSet(pending) :
               cb.kind = "showdown"
                   => \A r \in CallbackResults(cb) :
                          HandsOnTheWay(r) <= HandsOnTheWay(World) + 1

\* the players of ps who are seated, ready and not sitting out
Seated(ps) ==
    {k \in DOMAIN ps : ps[k].seatNumber # NoSeat /\ ps[k].isReadyToPlay /\ ~ps[k].isSittingOut}

\* C28: when a disconnect during an open hand leaves fewer than two seated,
\* ready, non-sitting-out players, the table is back in its waiting state (no
\* turn-holder, pot 0, no community cards, phase pre-flop), and if one
\* contesting player remains, the pot that existed is added to that player's
\* chips.
C28_TableCollapse ==
    \A id \in Ids :
        LET r == OnDisconnect(World, id)
        IN (/\ HandOpen /\ pending = EmptyBag /\ IndexOfId(players, id) # 0
            /\ Cardinality(Seated(r.players)) < 2)
               => /\ r.pot = 0 /\ r.communityCards = 0 /\ r.phase = "pre-flop"
                  /\ r.activePlayerId = NoId /\ NumTurn(r.players) = 0
                  /\ \A j \in 1..Len(r.players) :
                         (r.players[j].isActive /\ NumActive(r.players) = 1)
                             => \E i \in 1..Len(players) :
                                    /\ players[i].id = r.players[j].id
                                    /\ r.players[j].chips = players[i].chips + pot

\* C29: addChips adds amount to the sender's chips, and changes nothing else,
\* when amount >= minBuyIn and the sender is not contesting an open hand; in
\* every other case it changes nothing.
C29_AddChipsOutsideHand ==
    \A id \in Ids \cup {Stranger}, amount \in AddChipsAmounts :
        LET i == IndexOfId(players, id)
            r == OnAddChips(World, id, amount)
        IN status = "running" =>
               IF i # 0 /\ amount >= MIN_BUY_IN /\ ~(HandOpen /\ players[i].isActive)
               THEN r = [World EXCEPT !.players[i].chips = @ + amount]
               ELSE r = World

\* ---------------------------------------------------------------------
\* The hand evaluator, src/server/src/lib/evaluator.ts.  A card is a
\* record [rank, suit]; a HandResult is kept as [rank, cards] (name and
\* description are strings derived from the same cards).
\* ---------------------------------------------------------------------

\* enum HandRank
ROYAL_FLUSH == 10
STRAIGHT_FLUSH == 9
FOUR_OF_A_KIND == 8
FULL_HOUSE == 7
FLUSH == 6
STRAIGHT == 5
THREE_OF_A_KIND == 4
TWO_PAIR == 3
ONE_PAIR == 2
HIGH_CARD == 1

\* the null a helper returns; neither helper ever returns an empty array
Null == << >>

\* getRankValue: the table from rank strings to numbers
GetRankValue(rank) ==
    CASE rank = "2" -> 2
      [] rank = "3" -> 3
      [] rank = "4" -> 4
      [] rank = "5" -> 5
      [] rank = "6" -> 6
      [] rank = "7" -> 7
      [] rank = "8" -> 8
      [] rank = "9" -> 9
      [] rank = "10" -> 10
      [] rank = "J" -> 11
      [] rank = "Q" -> 12
      [] rank = "K" -> 13
      [] rank = "A" -> 14

\* cards.sort((a, b) => getRankValue(b.rank) - getRankValue(a.rank)):
\* descending by value, cards of equal value keep their order
RECURSIVE SortCards(_)
SortCards(cards) ==
    IF cards = << >> THEN << >>
    ELSE LET x == Head(cards)
             rest == SortCards(Tail(cards))
         IN SelectSeq(rest, LAMBDA c : GetRankValue(c.rank) > GetRankValue(x.rank))
            \o <<x>>
            \o SelectSeq(rest, LAMBDA c : GetRankValue(c.rank) <= GetRankValue(x.rank))

\* slice(0, n)
Slice(s, n) == SubSeq(s, 1, Min(n, Len(s)))

\* a set of numbers as a descending array
RECURSIVE Descending(_)
Descending(S) ==
    IF S = {} THEN << >>
    ELSE LET m == CHOOSE x \in S : \A y \in S : y <= x
         IN <<m>> \o Descending(S \ {m})

\* getRankCounts + countsByFreq.get(n): the ranks held n times, in the
\* order in which the Map met them (first appearance in cards)
RanksWithCount(cards, n) ==
    LET Count(r) == Len(SelectSeq(cards, LAMBDA c : c.rank = r))
        First(i) == \A j \in 1..(i - 1) : cards[j].rank # cards[i].rank
        idx == SelectSeq([i \in 1..Len(cards) |-> i],
                         LAMBDA i : First(i) /\ Count(cards[i].rank) = n)
    IN [k \in 1..Len(idx) |-> cards[idx[k]].rank]

\* checkFlush: the five highest cards of the first suit holding five or more
CheckFlush(cards) ==
    LET OfSuit(s) == SelectSeq(cards, LAMBDA c : c.suit = s)
        hits == { i \in 1..Len(cards) : Len(OfSuit(cards[i].suit)) >= 5 }
    IN IF hits = {} THEN Null
       ELSE LET i == CHOOSE h \in hits : \A g \in hits : h <= g
            IN Slice(SortCards(OfSuit(cards[i].suit)), 5)

\* checkStraight: the first window of five consecutive values, an ace also
\* counted as 1 at the end; one card is looked up per value of the window
\* and pushed only if found
CheckStraight(cards) ==
    LET distinct == { GetRankValue(cards[i].rank) : i \in 1..Len(cards) }
        values == Descending(distinct) \o (IF 14 \in distinct THEN <<1>> ELSE << >>)
        starts == { i \in 1..(Len(values) - 4) : values[i] - values[i + 4] = 4 }
    IN IF starts = {} THEN Null
       ELSE LET i == CHOOSE h \in starts : \A g \in starts : h <= g
                Found(v) == SelectSeq(cards, LAMBDA c : GetRankValue(c.rank) = v)
                Push(v) == IF Found(v) = << >> THEN << >> ELSE <<Head(Found(v))>>
            IN Push(values[i]) \o Push(values[i] - 1) \o Push(values[i] - 2)
               \o Push(values[i] - 3) \o Push(values[i] - 4)

\* evaluateHand
EvaluateHand(cards) ==
    LET sortedCards == SortCards(cards)
        flush == CheckFlush(sortedCards)
        straight == CheckStraight(sortedCards)
        straightFlush == IF flush # Null /\ straight # Null
                         THEN CheckStraight(flush) ELSE Null
        quads == RanksWithCount(sortedCards, 4)
        trips == RanksWithCount(sortedCards, 3)
        pairs == RanksWithCount(sortedCards, 2)
        Of(r) == SelectSeq(sortedCards, LAMBDA c : c.rank = r)
        NotOf(R) == SelectSeq(sortedCards, LAMBDA c : c.rank \notin R)
    IN IF straightFlush # Null
       THEN IF GetRankValue(straightFlush[1].rank) = 14
            THEN [rank |-> ROYAL_FLUSH, cards |-> straightFlush]
            ELSE [rank |-> STRAIGHT_FLUSH, cards |-> straightFlush]
       ELSE IF quads # << >>
       THEN [rank |-> FOUR_OF_A_KIND,
             cards |-> Of(quads[1]) \o Slice(NotOf({quads[1]}), 1)]
       ELSE IF trips # << >> /\ pairs # << >>
       THEN [rank |-> FULL_HOUSE,
             cards |-> Of(trips[1]) \o Slice(Of(pairs[1]), 2)]
       ELSE IF flush # Null
       THEN [rank |-> FLUSH, cards |-> flush]
       ELSE IF straight # Null
       THEN [rank |-> STRAIGHT, cards |-> straight]
       ELSE IF trips # << >>
       THEN [rank |-> THREE_OF_A_KIND,
             cards |-> Of(trips[1]) \o Slice(NotOf({trips[1]}), 2)]
       ELSE IF Len(pairs) >= 2
       THEN [rank |-> TWO_PAIR,
             cards |-> Of(pairs[1]) \o Of(pairs[2])
                       \o Slice(NotOf({pairs[1], pairs[2]}), 1)]
       ELSE IF pairs # << >>
       THEN [rank |-> ONE_PAIR,
             cards |-> Of(pairs[1]) \o Slice(NotOf({pairs[1]}), 3)]
       ELSE [rank |-> HIGH_CARD, cards |-> Slice(sortedCards, 5)]

\* findBestHand: the hole cards followed by the community cards
FindBestHand(holeCards, community) == EvaluateHand(holeCards \o community)

\* ---------------------------------------------------------------------
\* The evaluator on its own: one call of evaluateHand on a hand of seven
\* distinct cards, the table left as the module loads it.
\* ---------------------------------------------------------------------

\* two hole cards and five community cards
EvalHandSize == 7

Card(r, s) == [rank |-> r, suit |-> s]

\* the cards the hands are drawn from
EvalDeck ==
    << Card("A", "spades"), Card("K", "spades"), Card("6", "spades"),
       Card("5", "spades"), Card("4", "spades"), Card("3", "spades"),
       Card("2", "spades"), Card("A", "hearts"), Card("A", "diamonds"),
       Card("K", "hearts"), Card("2", "hearts"), Card("2", "diamonds") >>

\* spades from the ace down to the eight, and one card off suit
RunDeck ==
    << Card("A", "spades"), Card("K", "spades"), Card("Q", "spades"),
       Card("J", "spades"), Card("10", "spades"), Card("9", "spades"),
       Card("8", "spades"), Card("10", "hearts") >>

\* the cards of a deck at the positions S, in deck order
DrawFrom(d, S) ==
    LET Nth(k) == CHOOSE i \in S : Cardinality({ j \in S : j < i }) = k - 1
    IN [k \in 1..Cardinality(S) |-> d[Nth(k)]]

DrawAt(S) == DrawFrom(EvalDeck, S)

HandsFrom(d) ==
    { DrawFrom(d, S) : S \in { T \in SUBSET (1..Len(d)) :
                                  Cardinality(T) = EvalHandSize } }

EvalHands == HandsFrom(EvalDeck) \cup HandsFrom(RunDeck)

EvalInit ==
    /\ TableInit
    /\ evalCards \in EvalHands
    /\ handResult = NoResult

\* the call evaluateHand(evalCards) returns
Evaluate ==
    /\ handResult = NoResult
    /\ handResult' = EvaluateHand(evalCards)
    /\ UNCHANGED <<tableVars, turnTimer, pending, status, hands, budget, ev,
                   evalCards>>

EvalNext == Evaluate

EvalSpec == EvalInit /\ [][EvalNext]_vars

\* ---------------------------------------------------------------------
\* The standard ranking of five-card hands, for reference.
\* ---------------------------------------------------------------------

\* the values of a set of cards, and how many of the cards hold value v
ValuesOf(five) == { GetRankValue(c.rank) : c \in five }
Holding(five, v) == Cardinality({ c \in five : GetRankValue(c.rank) = v })

IsFlushHand(five) == \A c, d \in five : c.suit = d.suit

\* the value a straight is named after (5 for A-2-3-4-5), 0 if none
StraightTop(five) ==
    LET vs == ValuesOf(five)
        hi == CHOOSE x \in vs : \A y \in vs : y <= x
        lo == CHOOSE x \in vs : \A y \in vs : x <= y
    IN IF Cardinality(vs) # 5 THEN 0
       ELSE IF hi - lo = 4 THEN hi
       ELSE IF vs = {14, 5, 4, 3, 2} THEN 5
       ELSE 0

\* the multiplicities present among the five cards
Shape(five) == { Holding(five, v) : v \in ValuesOf(five) }

\* the tier of a hand of exactly five cards
TierOf(five) ==
    IF IsFlushHand(five) /\ StraightTop(five) = 14 THEN ROYAL_FLUSH
    ELSE IF IsFlushHand(five) /\ StraightTop(five) # 0 THEN STRAIGHT_FLUSH
    ELSE IF 4 \in Shape(five) THEN FOUR_OF_A_KIND
    ELSE IF Shape(five) = {3, 2} THEN FULL_HOUSE
    ELSE IF IsFlushHand(five) THEN FLUSH
    ELSE IF StraightTop(five) # 0 THEN STRAIGHT
    ELSE IF 3 \in Shape(five) THEN THREE_OF_A_KIND
    ELSE IF Cardinality(ValuesOf(five)) = 3 THEN TWO_PAIR
    ELSE IF Cardinality(ValuesOf(five)) = 4 THEN ONE_PAIR
    ELSE HIGH_CARD

\* the tie-break of a five-card hand within its tier, as one number: a
\* straight by its top value, any other hand by its values read in the
\* order most-held first, then highest first
TieBreak(five) ==
    LET Weight(v) == 15 * Holding(five, v) + v
        order == Descending({ Weight(v) : v \in ValuesOf(five) })
        RECURSIVE Digits(_)
        Digits(s) == IF s = << >> THEN 0
                     ELSE (Head(s) % 15) + 15 * Digits(Tail(s))
        Reverse(s) == [k \in 1..Len(s) |-> s[Len(s) + 1 - k]]
    IN IF StraightTop(five) # 0 THEN StraightTop(five)
       ELSE Digits(Reverse(order))

FiveOf(hand) ==
    { F \in SUBSET { hand[i] : i \in 1..Len(hand) } : Cardinality(F) = 5 }

\* the best tier among the five-card subsets of a hand
BestTier(hand) ==
    CHOOSE t \in { TierOf(F) : F \in FiveOf(hand) } :
        \A F \in FiveOf(hand) : TierOf(F) <= t

\* the cards of a result as a set
Returned(r) == { r.cards[i] : i \in 1..Len(r.cards) }

\* C30: for every hand of 7 distinct cards, once evaluateHand has returned,
\* its rank is the highest tier among the 21 five-card subsets, and the
\* cards it returns are five cards of the hand that form a hand of that
\* tier whose tie-break no five-card subset of the same tier exceeds.
C30_BestFiveOfSeven ==
    handResult # NoResult =>
        /\ handResult.rank = BestTier(evalCards)
        /\ Len(handResult.cards) = 5
        /\ Returned(handResult) \in FiveOf(evalCards)
        /\ TierOf(Returned(handResult)) = handResult.rank
        /\ \A F \in FiveOf(evalCards) :
               TierOf(F) = handResult.rank =>
                   TieBreak(F) <= TieBreak(Returned(handResult))

\* the cards of a hand as a set
HandSet(hand) == { hand[i] : i \in 1..Len(hand) }

\* the best five cards of the hand are A-2-3-4-5: the best tier is a
\* straight or a straight flush and none of that tier tops the five
WheelIsBest(hand) ==
    /\ BestTier(hand) \in {STRAIGHT, STRAIGHT_FLUSH}
    /\ \A F \in FiveOf(hand) :
           TierOf(F) = BestTier(hand) => StraightTop(F) = 5

\* C31: a hand whose best five cards are A-2-3-4-5 evaluates to Straight
\* (Straight Flush if the five share a suit), five-high with the ace low,
\* and the cards returned are exactly five cards of that run, the ace
\* among them.
C31_Wheel ==
    (handResult # NoResult /\ WheelIsBest(evalCards)) =>
        /\ handResult.rank = BestTier(evalCards)
        /\ Len(handResult.cards) = 5
        /\ Returned(handResult) \in FiveOf(evalCards)
        /\ StraightTop(Returned(handResult)) = 5
        /\ \E c \in Returned(handResult) : c.rank = "A"

\* the values held at least n times in the hand
HeldAtLeast(hand, n) ==
    { v \in ValuesOf(HandSet(hand)) : Holding(HandSet(hand), v) >= n }

Highest(S) == CHOOSE x \in S : \A y \in S : y <= x

\* some five cards of the hand are a straight flush
HasStraightFlush(hand) ==
    \E F \in FiveOf(hand) : IsFlushHand(F) /\ StraightTop(F) # 0

\* three of one rank, two or more of another, no four of a kind and no
\* straight flush
FullHouseCase(hand) ==
    /\ HeldAtLeast(hand, 4) = {}
    /\ \E t \in HeldAtLeast(hand, 3) : HeldAtLeast(hand, 2) \ {t} # {}
    /\ ~HasStraightFlush(hand)

\* C32: seven cards with three of one rank and two or more of another
\* (two sets of three included), without four of a kind or a straight
\* flush, evaluate to Full House: three cards of the highest rank held
\* three times and two of the highest remaining rank held twice or more.
C32_FullHouse ==
    (handResult # NoResult /\ FullHouseCase(evalCards)) =>
        LET t == Highest(HeldAtLeast(evalCards, 3))
            p == Highest(HeldAtLeast(evalCards, 2) \ {t})
        IN /\ handResult.rank = FULL_HOUSE
           /\ Len(handResult.cards) = 5
           /\ Returned(handResult) \in FiveOf(evalCards)
           /\ Holding(Returned(handResult), t) = 3
           /\ Holding(Returned(handResult), p) = 2

\* C33: seven cards holding five cards of one suit with consecutive ranks
\* evaluate to Straight Flush, or Royal Flush when the run is 10 to ace,
\* also when six or seven cards share the suit and the run is not the five
\* highest of them.
C33_StraightFlush ==
    (handResult # NoResult /\ HasStraightFlush(evalCards)) =>
        handResult.rank =
            IF \E F \in FiveOf(evalCards) :
                   IsFlushHand(F) /\ StraightTop(F) = 14
            THEN ROYAL_FLUSH
            ELSE STRAIGHT_FLUSH

\* the chips on the table in w: every rostered player's stack and the pot
ChipsAndPot(w) == SumChips(w.players) + w.pot

\* C34: within one hand the pot is credited to the players' chips at most
\* once: the sum of all rostered players' chips and the pot is never raised
\* by a turn-timer expiry, a sitOut, a disconnect or a queued callback, in
\* whatever order they occur around the award.
C34_PotCreditedOnce ==
    status = "running" =>
        /\ turnTimer => ChipsAndPot(OnTurnTimer(World)) <= ChipsAndPot(World)
        /\ \A id \in Ids :
               /\ ChipsAndPot(OnSitOut(World, id)) <= ChipsAndPot(World)
               /\ ChipsAndPot(OnDisconnect(World, id)) <= ChipsAndPot(World)
        /\ \A cb \in BagToSet(pending) :
               \A r \in CallbackResults(cb) :
                   ChipsAndPot(r) <= ChipsAndPot(World)

\* what a call or raise that turns w into r must have done for the actor at
\* index i: a non-negative amount left the actor's chips and entered the
\* actor's currentBet and the pot, table.currentBet did not fall and nobody
\* is below 0 chips
MovedChips(w, r, i) ==
    LET moved == w.players[i].chips - r.players[i].chips
    IN /\ moved >= 0
       /\ r.players[i].currentBet = w.players[i].currentBet + moved
       /\ r.pot = w.pot + moved
       /\ r.currentBet >= w.currentBet
       /\ \A j \in 1..Len(r.players) : r.players[j].chips >= 0

\* C35: for every accepted call or raise the amount moved is non-negative
\* and is the amount taken from the actor's chips and added to the actor's
\* currentBet and to the pot; the actor's chips never increase, the pot and
\* table.currentBet never decrease and no player's chips go below 0, a short
\* all-in raise and a call by an actor whose currentBet exceeds
\* table.currentBet included.  Stated for tables where every rostered
\* player has bought in.
C35_ChipsMoveForward ==
    LET i == IndexOfId(players, activePlayerId)
    IN (/\ status = "running" /\ activePlayerId # NoId /\ i # 0
        /\ \A j \in 1..Len(players) : players[j].seatNumber # NoSeat) =>
           /\ MovedChips(World, Call(World, i), i)
           /\ \A amount \in RaiseAmounts :
                  (amount # 0 /\ IsValidRaise(World, i, amount))
                      => MovedChips(World, Raise(World, i, amount), i)

\* the four action types handleAction knows
KnownActions == {"fold", "check", "call", "raise"}

\* C36: from the moment a betting round is declared complete until the next
\* street's cards are dealt and its first turn-holder is set (a street
\* callback is queued), no fold, check, call or raise of any client is
\* accepted; so no betting round starts or completes before its street's
\* cards are on the board and no street's round is skipped.
C36_NoActionWhileDealing ==
    (status = "running" /\ StreetCallbacks(World) >= 1) =>
        \A id \in Ids, in \in PlayerInputs :
            in[1] \in KnownActions => OnAction(World, id, in[1], in[2]) = World

\* C37: every search for the next player to act (resetBettingRound,
\* updateGameState, the flop callback of nextPhase) terminates, also when no
\* rostered player is both contesting and not all-in at the time it runs: no
\* handler or callback is ever caught in its loop.
C37_SearchTerminates == status # "hung"

\* a hand is in progress: its deal is pending, or it is dealt and open
HandInProgress ==
    /\ status = "running"
    /\ Queued("deal", FALSE) \/ HandOpen

\* C38: a successful buyIn while a hand is in progress (the deal pending, or
\* blinds posted and betting under way) only seats the player: apart from the
\* buyer's chips, seat, isSittingOut and isReadyToPlay and the seat leaving
\* availableSeats nothing changes; no round is started, the pot and the bets
\* stay and no further deal is scheduled.
C38_BuyInOnlySeats ==
    HandInProgress =>
        \A id \in Ids, req \in BuyInRequests :
            LET r == OnBuyIn(World, id, req[1], req[2])
                i == IndexOfId(players, id)
            IN r # World =>
                   r = [World EXCEPT !.players[i].chips = req[1],
                                     !.players[i].seatNumber = req[2],
                                     !.players[i].isSittingOut = FALSE,
                                     !.players[i].isReadyToPlay = TRUE,
                                     !.availableSeats = SelectSeq(@, LAMBDA s : s # req[2])]

\* C39: in every reachable state activePlayerId is set if and only if
\* exactly one rostered player has isTurn = true, and then that player's id
\* is activePlayerId: the two records of whose turn it is never disagree.
C39_TurnRecordsAgree ==
    status = "running" =>
        /\ activePlayerId # NoId <=> NumTurn(players) = 1
        /\ \A i \in 1..Len(players) :
               players[i].isTurn => players[i].id = activePlayerId

\* the player at index i has just busted: the showdown callback has settled
\* the hand and put the player, seated and without chips, on needsBuyIn
Busted(i) ==
    /\ status = "running" /\ ev.kind = "showdown"
    /\ players[i].seatNumber # NoSeat /\ players[i].chips = 0
    /\ players[i].isSittingOut /\ ~players[i].isReadyToPlay

\* C40: a seated player who has no chips after a settlement and is sent
\* needsBuyIn can buy in again: a buyIn with amount >= minBuyIn at the seat
\* that message offers, the player's own, leaves the player in that seat with
\* the new chips, isSittingOut = false and isReadyToPlay = true, and takes no
\* further seat.
C40_BustedRebuy ==
    \A i \in 1..Len(players), amount \in BuyInAmounts :
        (Busted(i) /\ amount >= MIN_BUY_IN) =>
            LET r == OnBuyIn(World, players[i].id, amount, players[i].seatNumber)
                k == IndexOfId(r.players, players[i].id)
            IN /\ k # 0
               /\ r.players[k].chips = amount
               /\ r.players[k].seatNumber = players[i].seatNumber
               /\ ~r.players[k].isSittingOut
               /\ r.players[k].isReadyToPlay
               /\ FreeSeats(r) = FreeSeats(World)

====
